---- MODULE Spec2Model ----
(***************************************************************************)
(* Two-pass chunked scan-and-collect of flight track records               *)
(* (process_flight_data.py).                                               *)
(*                                                                         *)
(* A CSV file is modelled by the data rows that precede its first          *)
(* unreadable line (rows) and by whether such a line exists (bad).  A file *)
(* that cannot be opened at all is rows = << >>, bad = TRUE.  Reading in   *)
(* chunks of chunk_size rows delivers the chunks that lie wholly before    *)
(* the unreadable line; the read of the chunk that contains it raises.     *)
(* Aircraft types and flight identifiers are strings in the program; they  *)
(* are numbered here in their lexicographic order.                         *)
(***************************************************************************)
EXTENDS Integers, Sequences, FiniteSets, Bags, TLC

\* ---- bounds of the model
MaxFiles == 2
MaxRows == 2
NumTypes == 2
NumIds == 2
MaxQuota == 2
MaxChunk == 2
\* the second set of inputs: more files, fewer rows in all
MaxFilesWide == 3
MaxTotalRows == 3

Types == 1..NumTypes
Ids == 1..NumIds
Rows == [flight_id : Ids, type : Types]

RECURSIVE SeqsUpTo(_, _)
SeqsUpTo(S, n) ==
    IF n = 0 THEN {<< >>}
    ELSE LET shorter == SeqsUpTo(S, n - 1)
         IN  shorter \cup {Append(s, x) : s \in {t \in shorter : Len(t) = n - 1}, x \in S}

Files == [rows : SeqsUpTo(Rows, MaxRows), bad : BOOLEAN]

\* the paths an output_file argument can be: empty (persistence disabled) or a path
OutputFiles == {"", "filtered_flights.csv"}
NoFile == [path |-> "", rows |-> << >>]

VARIABLES
    csv_files,          \* sorted(glob.glob(csv_pattern)): the files, in order
    target_types,       \* set(target_types)
    flights_per_type,   \* the quota
    chunk_size,
    pc,                 \* position in process_flight_csvs and its callees
    found_flights,      \* type -> set of flight ids; a type without match has no key
    types_needed,
    file_i,             \* index of the file of the running for loop
    chunk_n,            \* chunks of that file read so far
    collected_data,     \* list of filtered chunks
    result_df,          \* rows of the returned frame
    written,            \* the output file on disk
    calls,              \* functions invoked so far
    disc_opened,        \* files pd.read_csv was called on by find_target_flight_ids
    coll_opened,        \* files pd.read_csv was called on by collect_flight_data
    run,                \* which run of the pipeline this is
    prev                \* what the previous run discovered and returned

vars == <<csv_files, target_types, flights_per_type, chunk_size, pc, found_flights,
          types_needed, file_i, chunk_n, collected_data, result_df, written, calls,
          disc_opened, coll_opened, run, prev>>

args == <<csv_files, target_types, flights_per_type, chunk_size>>

\* ---- pure helpers

SeqToSet(s) == {s[k] : k \in 1..Len(s)}

Min(a, b) == IF a < b THEN a ELSE b

\* chunks of f that pd.read_csv(f, chunksize=s) delivers before it stops or raises
NumDelivered(f, s) ==
    IF f.bad THEN Len(f.rows) \div s
    ELSE (Len(f.rows) + s - 1) \div s

\* the k-th chunk (1-based) of f
Chunk(f, s, k) == SubSeq(f.rows, (k - 1) * s + 1, Min(k * s, Len(f.rows)))

\* the rows of f that a pass gets to see
Delivered(f, s) == SubSeq(f.rows, 1, Min(NumDelivered(f, s) * s, Len(f.rows)))

\* found_flights.get(t, set())
FoundGet(found, t) == IF t \in DOMAIN found THEN found[t] ELSE {}

\* variant of Limit: the set is not cut down
LimitKeepAll(acc, n) == {acc}

\* set(list(acc)[:n]): the first n elements of a set in its iteration order, which
\* for a set of strings is any order (hash randomisation)
Limit(acc, n) == {S \in SUBSET acc : Cardinality(S) = n}

\* chunk['type'].isin(types_needed)
TypeMask(row, needed) == row.type \in needed

\* variant of NewFlightIds: the ids are taken from the chunk, not from type_rows
NewFlightIdsAnyType(chunk, needed, t) ==
    IF \E j \in 1..Len(chunk) : chunk[j].type = t
    THEN {chunk[k].flight_id : k \in 1..Len(chunk)}
    ELSE {}

\* new_flight_ids of one type in the filtered chunk
NewFlightIds(chunk, needed, t) ==
    {chunk[k].flight_id : k \in {j \in 1..Len(chunk) : TypeMask(chunk[j], needed) /\ chunk[j].type = t}}

\* variant of ChunkOutcomes: the loop runs over every type, needed or not
ChunkOutcomesAllTypes(found, needed, chunk, quota) ==
    LET ids(t) == {chunk[k].flight_id : k \in {j \in 1..Len(chunk) : chunk[j].type = t}}
        hit == {t \in Types : ids(t) # {}}
        acc(t) == FoundGet(found, t) \cup ids(t)
        full == {t \in hit : Cardinality(acc(t)) >= quota}
        picks == {p \in [hit -> SUBSET Ids] :
                     \A t \in hit : IF t \in full THEN p[t] \in Limit(acc(t), quota)
                                    ELSE p[t] = acc(t)}
    IN  {[found |-> [t \in DOMAIN found \cup hit |-> IF t \in hit THEN p[t] ELSE found[t]],
          needed |-> needed \ full] : p \in picks}

\* the states of (found_flights, types_needed) one chunk can lead to
ChunkOutcomes(found, needed, chunk, quota) ==
    LET hit == {t \in needed : NewFlightIds(chunk, needed, t) # {}}
        acc(t) == FoundGet(found, t) \cup NewFlightIds(chunk, needed, t)
        full == {t \in hit : Cardinality(acc(t)) >= quota}
        picks == {p \in [hit -> SUBSET Ids] :
                     \A t \in hit : IF t \in full THEN p[t] \in Limit(acc(t), quota)
                                    ELSE p[t] = acc(t)}
    IN  {[found |-> [t \in DOMAIN found \cup hit |-> IF t \in hit THEN p[t] ELSE found[t]],
          needed |-> needed \ full] : p \in picks}

\* variant of EarlyExit: the loop never breaks
EarlyExitNever(needed) == FALSE

\* if not types_needed: break
EarlyExit(needed) == needed = {}

\* where the for loop over the files goes on after `except Exception: continue`
ScanExcept == "scan"

\* variant of CollectExcept: the exception leaves collect_flight_data
CollectExceptRaise == "raised"

\* the same in the second pass
CollectExcept == "collect"

\* ---- the state after the command line is fixed and before the pipeline runs

Init ==
    /\ csv_files \in SeqsUpTo(Files, MaxFiles)
    /\ target_types \in SUBSET Types
    /\ flights_per_type \in 1..MaxQuota
    /\ chunk_size \in 1..MaxChunk
    /\ pc = "main"
    /\ found_flights = << >>
    /\ types_needed = {}
    /\ file_i = 0
    /\ chunk_n = 0
    /\ collected_data = << >>
    /\ result_df = << >>
    /\ written = NoFile
    /\ calls = {}
    /\ disc_opened = {}
    /\ coll_opened = {}
    /\ run = 1
    /\ prev = << >>

\* process_flight_csvs up to the call of find_target_flight_ids
Main ==
    /\ pc = "main"
    /\ IF csv_files = << >>
       THEN /\ pc' = "done"
            /\ UNCHANGED <<calls, types_needed, file_i>>
       ELSE /\ pc' = "scan"
            /\ calls' = calls \cup {"find_target_flight_ids"}
            /\ types_needed' = target_types
            /\ file_i' = 1
    /\ found_flights' = << >>
    /\ result_df' = << >>
    /\ UNCHANGED <<args, chunk_n, collected_data, written, disc_opened, coll_opened, run, prev>>

\* for csv_file in csv_files: the early exit did not apply, the file is opened
ScanFile ==
    /\ pc = "scan"
    /\ file_i <= Len(csv_files)
    /\ ~EarlyExit(types_needed)
    /\ disc_opened' = disc_opened \cup {file_i}
    /\ chunk_n' = 0
    /\ pc' = "scan_chunk"
    /\ UNCHANGED <<args, found_flights, types_needed, file_i, collected_data, result_df,
                   written, calls, coll_opened, run, prev>>

\* one chunk of the first pass
ScanChunk ==
    /\ pc = "scan_chunk"
    /\ chunk_n < NumDelivered(csv_files[file_i], chunk_size)
    /\ \E o \in ChunkOutcomes(found_flights, types_needed,
                              Chunk(csv_files[file_i], chunk_size, chunk_n + 1),
                              flights_per_type) :
          /\ found_flights' = o.found
          /\ types_needed' = o.needed
    /\ chunk_n' = chunk_n + 1
    /\ UNCHANGED <<args, pc, file_i, collected_data, result_df, written, calls,
                   disc_opened, coll_opened, run, prev>>

\* the read raises: except Exception, continue
ScanError ==
    /\ pc = "scan_chunk"
    /\ chunk_n = NumDelivered(csv_files[file_i], chunk_size)
    /\ csv_files[file_i].bad
    /\ pc' = ScanExcept
    /\ file_i' = file_i + 1
    /\ UNCHANGED <<args, found_flights, types_needed, chunk_n, collected_data, result_df,
                   written, calls, disc_opened, coll_opened, run, prev>>

\* the file is exhausted
ScanEOF ==
    /\ pc = "scan_chunk"
    /\ chunk_n = NumDelivered(csv_files[file_i], chunk_size)
    /\ ~csv_files[file_i].bad
    /\ pc' = "scan"
    /\ file_i' = file_i + 1
    /\ UNCHANGED <<args, found_flights, types_needed, chunk_n, collected_data, result_df,
                   written, calls, disc_opened, coll_opened, run, prev>>

\* all_target_ids of collect_flight_data
AllTargetIds(found) == UNION {found[t] : t \in DOMAIN found}

\* find_target_flight_ids returns and collect_flight_data is entered
CallCollect ==
    /\ pc = "scan"
    /\ file_i > Len(csv_files) \/ EarlyExit(types_needed)
    /\ calls' = calls \cup {"collect_flight_data"}
    /\ collected_data' = << >>
    /\ IF AllTargetIds(found_flights) = {}
       THEN /\ pc' = "save"
            /\ result_df' = << >>
            /\ UNCHANGED file_i
       ELSE /\ pc' = "collect"
            /\ file_i' = 1
            /\ UNCHANGED result_df
    /\ UNCHANGED <<args, found_flights, types_needed, chunk_n, written, disc_opened,
                   coll_opened, run, prev>>

\* variant of IdMask: every row passes
IdMaskAll(row, ids) == TRUE

\* chunk['flight_id'].isin(all_target_ids)
IdMask(row, ids) == row.flight_id \in ids

\* chunk[mask]
FilterChunk(chunk, ids) == SelectSeq(chunk, LAMBDA row : IdMask(row, ids))

\* for csv_file in csv_files of the second pass: no early exit
CollectFile ==
    /\ pc = "collect"
    /\ file_i <= Len(csv_files)
    /\ coll_opened' = coll_opened \cup {file_i}
    /\ chunk_n' = 0
    /\ pc' = "collect_chunk"
    /\ UNCHANGED <<args, found_flights, types_needed, file_i, collected_data, result_df,
                   written, calls, disc_opened, run, prev>>

\* one chunk of the second pass
CollectChunk ==
    /\ pc = "collect_chunk"
    /\ chunk_n < NumDelivered(csv_files[file_i], chunk_size)
    /\ LET filtered_chunk == FilterChunk(Chunk(csv_files[file_i], chunk_size, chunk_n + 1),
                                         AllTargetIds(found_flights))
       IN  collected_data' = IF filtered_chunk # << >>
                             THEN Append(collected_data, filtered_chunk)
                             ELSE collected_data
    /\ chunk_n' = chunk_n + 1
    /\ UNCHANGED <<args, pc, found_flights, types_needed, file_i, result_df, written, calls,
                   disc_opened, coll_opened, run, prev>>

\* the read raises: except Exception, continue
CollectError ==
    /\ pc = "collect_chunk"
    /\ chunk_n = NumDelivered(csv_files[file_i], chunk_size)
    /\ csv_files[file_i].bad
    /\ pc' = CollectExcept
    /\ file_i' = file_i + 1
    /\ UNCHANGED <<args, found_flights, types_needed, chunk_n, collected_data, result_df,
                   written, calls, disc_opened, coll_opened, run, prev>>

\* the file is exhausted
CollectEOF ==
    /\ pc = "collect_chunk"
    /\ chunk_n = NumDelivered(csv_files[file_i], chunk_size)
    /\ ~csv_files[file_i].bad
    /\ pc' = "collect"
    /\ file_i' = file_i + 1
    /\ UNCHANGED <<args, found_flights, types_needed, chunk_n, collected_data, result_df,
                   written, calls, disc_opened, coll_opened, run, prev>>

\* pd.concat(collected_data, ignore_index=True)
RECURSIVE Concat(_)
Concat(frames) == IF frames = << >> THEN << >> ELSE Head(frames) \o Concat(Tail(frames))

\* variant of KeyLE: sorted on flight_id alone
KeyLEById(a, b) == a.flight_id <= b.flight_id

\* the order of sort_values(['type', 'flight_id'])
KeyLE(a, b) == a.type < b.type \/ (a.type = b.type /\ a.flight_id <= b.flight_id)

\* row put into a sorted frame behind the rows that do not sort after it
RECURSIVE Insert(_, _)
Insert(sorted, row) ==
    IF sorted = << >> THEN <<row>>
    ELSE IF KeyLE(Head(sorted), row) THEN <<Head(sorted)>> \o Insert(Tail(sorted), row)
    ELSE <<row>> \o sorted

\* result_df.sort_values(['type', 'flight_id']).reset_index(drop=True)
RECURSIVE SortValues(_)
SortValues(frame) ==
    IF frame = << >> THEN << >>
    ELSE Insert(SortValues(SubSeq(frame, 1, Len(frame) - 1)), frame[Len(frame)])

\* collect_flight_data after its loop: concat, sort, return
CollectReturn ==
    /\ pc = "collect"
    /\ file_i > Len(csv_files)
    /\ result_df' = IF collected_data = << >> THEN << >>
                    ELSE SortValues(Concat(collected_data))
    /\ pc' = "save"
    /\ UNCHANGED <<args, found_flights, types_needed, file_i, chunk_n, collected_data,
                   written, calls, disc_opened, coll_opened, run, prev>>

\* variant of ShouldSave: the frame is always written
ShouldSaveAlways(frame, output_file) == TRUE

\* if not result_df.empty and output_file
ShouldSave(frame, output_file) == frame # << >> /\ output_file # ""

\* process_flight_csvs after the second pass: persist and return
Save ==
    /\ pc = "save"
    /\ \E output_file \in OutputFiles :
          IF ShouldSave(result_df, output_file)
          THEN /\ written' = [path |-> output_file, rows |-> result_df]
               /\ calls' = calls \cup {"to_csv"}
          ELSE UNCHANGED <<written, calls>>
    /\ pc' = "done"
    /\ UNCHANGED <<args, found_flights, types_needed, file_i, chunk_n, collected_data,
                   result_df, disc_opened, coll_opened, run, prev>>

\* the pipeline is run once more on the same files with the same configuration
Rerun ==
    /\ pc = "done"
    /\ run = 1
    /\ run' = 2
    /\ prev' = [found |-> found_flights, result |-> result_df]
    /\ pc' = "main"
    /\ types_needed' = {}
    /\ file_i' = 0
    /\ chunk_n' = 0
    /\ collected_data' = << >>
    /\ calls' = {}
    /\ disc_opened' = {}
    /\ coll_opened' = {}
    /\ UNCHANGED <<args, found_flights, result_df, written>>

Next ==
    \/ Main
    \/ ScanFile
    \/ ScanChunk
    \/ ScanError
    \/ ScanEOF
    \/ CallCollect
    \/ CollectFile
    \/ CollectChunk
    \/ CollectError
    \/ CollectEOF
    \/ CollectReturn
    \/ Save

Spec == Init /\ [][Next]_vars

NextTwice == Next \/ Rerun

SpecTwice == Init /\ [][NextTwice]_vars

\* ---- more files, fewer rows

RECURSIVE TotalRows(_)
TotalRows(files) == IF files = << >> THEN 0 ELSE Len(Head(files).rows) + TotalRows(Tail(files))

InitWide ==
    /\ csv_files \in {fs \in SeqsUpTo(Files, MaxFilesWide) : TotalRows(fs) <= MaxTotalRows}
    /\ target_types \in SUBSET Types
    /\ flights_per_type \in 1..MaxQuota
    /\ chunk_size \in 1..MaxChunk
    /\ pc = "main"
    /\ found_flights = << >>
    /\ types_needed = {}
    /\ file_i = 0
    /\ chunk_n = 0
    /\ collected_data = << >>
    /\ result_df = << >>
    /\ written = NoFile
    /\ calls = {}
    /\ disc_opened = {}
    /\ coll_opened = {}
    /\ run = 1
    /\ prev = << >>

SpecWide == InitWide /\ [][Next]_vars

\* ---- collect_flight_data called on its own with any identifier map

IdMaps == UNION {[D -> SUBSET Ids] : D \in SUBSET Types}

InitCollect ==
    /\ csv_files \in SeqsUpTo(Files, MaxFiles)
    /\ found_flights \in IdMaps
    /\ target_types = DOMAIN found_flights
    /\ flights_per_type = 1
    /\ chunk_size \in 1..MaxChunk
    /\ pc = "scan"
    /\ types_needed = {}
    /\ file_i = Len(csv_files) + 1
    /\ chunk_n = 0
    /\ collected_data = << >>
    /\ result_df = << >>
    /\ written = NoFile
    /\ calls = {}
    /\ disc_opened = {}
    /\ coll_opened = {}
    /\ run = 1
    /\ prev = << >>

NextCollect ==
    \/ CallCollect
    \/ CollectFile
    \/ CollectChunk
    \/ CollectError
    \/ CollectEOF
    \/ CollectReturn

SpecCollect == InitCollect /\ [][NextCollect]_vars

\* ---- vocabulary of the properties

NumFiles == Len(csv_files)

Readable == \A i \in 1..NumFiles : ~csv_files[i].bad

\* the first pass has returned
Discovered == pc \in {"collect", "collect_chunk", "save"} \/ (pc = "done" /\ csv_files # << >>)

\* the pipeline has returned after running both passes
Finished == pc = "done" /\ csv_files # << >>

\* all rows of the first k files, in file order
RECURSIVE RowsUpTo(_)
RowsUpTo(k) == IF k = 0 THEN << >> ELSE RowsUpTo(k - 1) \o csv_files[k].rows

\* the rows of the first k files that a pass is handed, in encounter order
RECURSIVE DeliveredUpTo(_)
DeliveredUpTo(k) ==
    IF k = 0 THEN << >> ELSE DeliveredUpTo(k - 1) \o Delivered(csv_files[k], chunk_size)

IdsOfType(rows, T) == {rows[k].flight_id : k \in {j \in 1..Len(rows) : rows[j].type = T}}

BagOfSeq(rows) == [x \in SeqToSet(rows) |-> Cardinality({k \in 1..Len(rows) : rows[k] = x})]

\* the files whose delivered rows, with those of the files before, fill every quota
QuotaFiles ==
    {k \in 1..NumFiles :
        \A T \in target_types :
            Cardinality(IdsOfType(DeliveredUpTo(k), T)) >= flights_per_type}

SetMin(S) == CHOOSE x \in S : \A y \in S : x <= y

\* the last file the first pass has a reason to open
ScanStop ==
    IF target_types = {} THEN 0
    ELSE IF QuotaFiles = {} THEN NumFiles
    ELSE SetMin(QuotaFiles)

\* the first n distinct flight ids of type T in rows, as far as there are n
RECURSIVE FirstIds(_, _, _, _)
FirstIds(rows, T, n, acc) ==
    IF rows = << >> \/ Cardinality(acc) = n THEN acc
    ELSE FirstIds(Tail(rows), T, n,
                  IF Head(rows).type = T THEN acc \cup {Head(rows).flight_id} ELSE acc)

IsSorted(rows) ==
    \A k \in 1..(Len(rows) - 1) :
        \/ rows[k].type < rows[k + 1].type
        \/ rows[k].type = rows[k + 1].type /\ rows[k].flight_id <= rows[k + 1].flight_id

\* ---- C1
\* C1: over readable files, once the first pass has returned, every target type
\* with at least flights_per_type distinct flight ids in the files has exactly
\* flights_per_type ids in the map, and every other target type has all of its ids.
C1_QuotaOrAll ==
    (Discovered /\ Readable) =>
        \A T \in target_types :
            LET avail == IdsOfType(RowsUpTo(NumFiles), T)
            IN  IF Cardinality(avail) >= flights_per_type
                THEN Cardinality(FoundGet(found_flights, T)) = flights_per_type
                ELSE FoundGet(found_flights, T) = avail

\* a type offers more ids than the quota and another target type fewer
C1_Witness ==
    /\ Discovered /\ Readable
    /\ \E T \in target_types :
          /\ Cardinality(IdsOfType(RowsUpTo(NumFiles), T)) > flights_per_type
          /\ Cardinality(FoundGet(found_flights, T)) = flights_per_type
    /\ NumFiles = 2

\* ---- C2
\* C2: when the pipeline has run, every row of the result has a discovered flight
\* id, and every discovered flight id has a row in the result; files may fail
\* part-way.
C2_Containment ==
    Finished =>
        /\ \A k \in 1..Len(result_df) : result_df[k].flight_id \in AllTargetIds(found_flights)
        /\ \A id \in AllTargetIds(found_flights) :
              \E k \in 1..Len(result_df) : result_df[k].flight_id = id

\* a file failed after a chunk was read from it, something was discovered, and
\* the files hold a flight that was not
C2_Witness ==
    /\ Finished
    /\ \E i \in 1..NumFiles :
          csv_files[i].bad /\ Delivered(csv_files[i], chunk_size) # << >> /\ i \in disc_opened
    /\ result_df # << >>
    /\ \E k \in 1..Len(DeliveredUpTo(NumFiles)) :
          DeliveredUpTo(NumFiles)[k].flight_id \notin AllTargetIds(found_flights)

\* ---- C3
\* C3: if the quotas of all target types are filled within file k and k is not
\* the last file, the first pass opens files 1..k only, and the second pass has
\* opened every file when the pipeline returns.
C3_EarlyExit ==
    (target_types # {} /\ QuotaFiles # {} /\ SetMin(QuotaFiles) < NumFiles) =>
        /\ disc_opened \subseteq 1..SetMin(QuotaFiles)
        /\ Discovered => disc_opened = 1..SetMin(QuotaFiles)
        /\ Finished => coll_opened = 1..NumFiles

\* quotas filled in file 1 of 3
C3_Witness ==
    /\ Finished
    /\ NumFiles = 3
    /\ target_types # {} /\ QuotaFiles # {} /\ SetMin(QuotaFiles) = 1
    /\ disc_opened = {1}
    /\ coll_opened = {1, 2, 3}

C5_AllMatchingRows ==
    pc = "save" =>
        /\ BagOfSeq(result_df) =
              BagOfSeq(FilterChunk(DeliveredUpTo(NumFiles), AllTargetIds(found_flights)))
        /\ Readable =>
              BagOfSeq(result_df) =
                  BagOfSeq(FilterChunk(RowsUpTo(NumFiles), AllTargetIds(found_flights)))

\* matching rows in two files, one of them twice, and a row that does not match
C5_Witness ==
    /\ pc = "save" /\ Readable
    /\ \E x \in DOMAIN BagOfSeq(result_df) : BagOfSeq(result_df)[x] = 2
    /\ \E i, j \in coll_opened :
          i # j /\ FilterChunk(csv_files[i].rows, AllTargetIds(found_flights)) # << >>
                /\ FilterChunk(csv_files[j].rows, AllTargetIds(found_flights)) # << >>
    /\ Len(result_df) < Len(RowsUpTo(NumFiles))

\* ---- C6
\* C6: the returned frame and the written file are non-decreasing in
\* (type, flight_id).
C6_Sorted ==
    pc \in {"save", "done"} => IsSorted(result_df) /\ IsSorted(written.rows)

\* the collected chunks were out of order
C6_Witness ==
    /\ pc = "done"
    /\ ~IsSorted(Concat(collected_data))
    /\ written.rows = result_df
    /\ \E k \in 1..(Len(result_df) - 1) : result_df[k].flight_id > result_df[k + 1].flight_id

\* ---- C7
\* C7: a second run on the same files with the same configuration discovers the
\* same map and returns the same frame.
C7_Idempotent ==
    (run = 2 /\ pc = "done") =>
        prev.found = found_flights /\ prev.result = result_df

\* ---- C8
\* C8: the set of a type that reached its quota is the first flights_per_type
\* distinct flight ids of that type in encounter order.
C8_FirstSeen ==
    Discovered =>
        \A T \in target_types :
            Cardinality(IdsOfType(DeliveredUpTo(NumFiles), T)) >= flights_per_type =>
                FoundGet(found_flights, T) =
                    FirstIds(DeliveredUpTo(NumFiles), T, flights_per_type, {})

\* ---- C9
\* C9 as stated: every row of the result is of a target type.
C9_OnlyTargetTypes ==
    Finished => \A k \in 1..Len(result_df) : result_df[k].type \in target_types

\* no flight id is used by a target type and by another type
NoIdAcrossTargets ==
    \A k, j \in 1..Len(RowsUpTo(NumFiles)) :
        LET a == RowsUpTo(NumFiles)[k]
            b == RowsUpTo(NumFiles)[j]
        IN  (a.flight_id = b.flight_id /\ a.type \in target_types) => b.type \in target_types

\* C9 amended: every row of the result is of a target type when no flight id of a
\* target type occurs under a type that is not a target.
C9_OnlyTargetTypesUnlessShared ==
    (Finished /\ NoIdAcrossTargets) =>
        \A k \in 1..Len(result_df) : result_df[k].type \in target_types

\* the files hold rows of a type that is not a target, and none is in the result
C9_Witness ==
    /\ Finished /\ NoIdAcrossTargets
    /\ result_df # << >>
    /\ \E k \in 1..Len(DeliveredUpTo(NumFiles)) :
          DeliveredUpTo(NumFiles)[k].type \notin target_types

\* ---- C10
\* C10: with no file, the pipeline returns an empty frame, calls neither pass and
\* writes nothing; a file is written only with a non-empty frame and a non-empty
\* path, and then holds the frame.
C10_EmptySelection ==
    /\ (pc = "done" /\ csv_files = << >>) =>
          result_df = << >> /\ calls = {} /\ written = NoFile
    /\ ("to_csv" \in calls \/ written # NoFile) =>
          result_df # << >> /\ written.path # "" /\ written.rows = result_df

\* the pattern matched nothing and the pipeline has returned
C10_Witness == pc = "done" /\ csv_files = << >> /\ calls = {}

\* ---- C11
\* a target type that has reached its quota keeps its set and stays out of
\* types_needed
QuotaSetsFrozen ==
    \A T \in target_types :
        (pc \in {"scan", "scan_chunk"} /\ T \notin types_needed) =>
            /\ FoundGet(found_flights', T) = FoundGet(found_flights, T)
            /\ pc' \in {"scan", "scan_chunk"} => T \notin types_needed'

\* C11: at every point of the first pass and in the returned map, no type holds
\* more than flights_per_type flight ids; and the set of a type that was removed
\* from types_needed is not changed by any later chunk or file.
C11_QuotaInvariant ==
    /\ [](\A T \in DOMAIN found_flights :
            Cardinality(found_flights[T]) <= flights_per_type)
    /\ [][QuotaSetsFrozen]_vars

\* the rows the first pass was handed before the chunk it read last
RowsBeforeLastChunk ==
    DeliveredUpTo(file_i - 1) \o SubSeq(csv_files[file_i].rows, 1, (chunk_n - 1) * chunk_size)

\* a type had filled its quota, and the chunk read last holds another flight of it
C11_Witness ==
    /\ pc = "scan_chunk" /\ chunk_n >= 1
    /\ types_needed # {}
    /\ \E T \in target_types \ types_needed :
          /\ Cardinality(IdsOfType(RowsBeforeLastChunk, T)) >= flights_per_type
          /\ Cardinality(found_flights[T]) = flights_per_type
          /\ \E id \in IdsOfType(Chunk(csv_files[file_i], chunk_size, chunk_n), T) :
                id \notin found_flights[T]

\* ---- C12
\* the files whose read raised after at least one chunk had been delivered
FailedPartWay(opened) ==
    {i \in opened : csv_files[i].bad /\ NumDelivered(csv_files[i], chunk_size) >= 1}

\* the rows handed to a pass by the files of `among`, in encounter order
RECURSIVE DeliveredFrom(_, _)
DeliveredFrom(k, among) ==
    IF k = 0 THEN << >>
    ELSE DeliveredFrom(k - 1, among) \o
         (IF k \in among THEN Delivered(csv_files[k], chunk_size) ELSE << >>)

\* C12: nothing of a file that failed part-way is retained: every flight id in the
\* map occurs, under its type, in a chunk of a file that did not fail, and the
\* result is made of the rows of the files that did not fail.
C12_NothingRetained ==
    /\ Discovered =>
          \A T \in DOMAIN found_flights :
              found_flights[T] \subseteq
                  IdsOfType(DeliveredFrom(NumFiles, disc_opened \ FailedPartWay(disc_opened)), T)
    /\ Finished =>
          BagOfSeq(result_df) =
              BagOfSeq(FilterChunk(
                  DeliveredFrom(NumFiles, coll_opened \ FailedPartWay(coll_opened)),
                  AllTargetIds(found_flights)))
====
